---------------------------- MODULE Spec2Model ----------------------------
(***************************************************************************)
(* A model of spotify-backup.py: the local authorization listener, the     *)
(* retrying and paginating API client, the curses playlist selection and   *)
(* the export assembly of main().                                          *)
(*                                                                         *)
(* JSON objects are records; a key the object lacks is a field outside the *)
(* record's DOMAIN.  Python lists are sequences.  An optional value (None  *)
(* or one value) is the empty or the one-element sequence.  Request paths  *)
(* of the local listener are sequences of characters; URLs of the API are  *)
(* sequences of tokens whose first token may be the API base.  Timestamps  *)
(* are whole seconds since the epoch.                                      *)
(***************************************************************************)
EXTENDS Integers, Sequences, FiniteSets, TLC

VARIABLES
    pc,                 \* where main() is
    args,               \* the parsed command line: dump, token
    served,             \* requests the local listener has answered
    spotify,            \* <<>> or <<the bearer token of the SpotifyAPI object>>
    me,                 \* the user object
    srv,                \* the remote service: resource -> chain of pages
    g,                  \* the running call of SpotifyAPI.get
    lst,                \* the running call of SpotifyAPI.list
    liked_tracks,
    liked_albums,
    playlist_data,      \* the list tui_select_playlists works on
    selected,           \* tui_select_playlists' selected
    current_row,        \* curses_main's cursor, 0-based
    key,                \* <<>> or <<the key getch returned last>>
    selected_playlists, \* what tui_select_playlists returned
    pl,                 \* position of main's loop over selected_playlists
    sort_keys,          \* the keys the last sort computed, in input order
    playlists,          \* main's playlists
    file,               \* <<>> or <<what was dumped to args.file>>
    exit                \* how the process ended, if it has

vars == <<pc, args, served, spotify, me, srv, g, lst, liked_tracks, liked_albums,
          playlist_data, selected, current_row, key, selected_playlists, pl,
          sort_keys, playlists, file, exit>>

(***************************************************************************)
(* Bounds of the model.                                                    *)
(***************************************************************************)
MaxPlaylists == 3       \* playlists offered to the selection (SpecTui)
MainPlaylists == 2      \* playlists of the account (Spec)
MaxRequests == 3        \* requests the local listener answers
MaxItems == 3           \* items of a listed collection (SpecClient)
MaxPages == 3           \* pages of a listed collection (SpecClient)
MaxTracks == 3          \* tracks of a sorted playlist (SpecSort)
MaxTime == 3            \* latest timestamp (SpecSort)
PageSize == 2           \* items the service puts on a page (Spec)

(***************************************************************************)
(* Sequences.                                                              *)
(***************************************************************************)
Range(s) == {s[i] : i \in 1..Len(s)}

\* Python's `x in s` on a list.
In(x, s) == \E i \in 1..Len(s) : s[i] = x

\* Python's s.remove(x): the first occurrence goes.
Remove(s, x) ==
    LET i == CHOOSE j \in 1..Len(s) : s[j] = x /\ \A k \in 1..(j - 1) : s[k] # x
    IN  SubSeq(s, 1, i - 1) \o SubSeq(s, i + 1, Len(s))

\* A swap through no temporary: s[i] = s[j]; s[j] = s[i].
SwapOverwriting(s, i, j) == [s EXCEPT ![i] = s[j]]

\* Python's s[i], s[j] = s[j], s[i] (1-based here).
Swap(s, i, j) == [s EXCEPT ![i] = s[j], ![j] = s[i]]

\* Python's s.reverse().
Reverse(s) == [i \in 1..Len(s) |-> s[Len(s) + 1 - i]]

RECURSIVE Filter(_, _)
\* [p for p in s if p in keep]
Filter(s, keep) ==
    IF s = <<>> THEN <<>>
    ELSE (IF In(Head(s), keep) THEN <<Head(s)>> ELSE <<>>) \o Filter(Tail(s), keep)

(***************************************************************************)
(* The process.                                                            *)
(***************************************************************************)
Running == [code |-> 0, by |-> "running"]

\* sys.exit(1)
SysExit == [code |-> 1, by |-> "sys.exit"]

\* An exception nothing catches: the interpreter prints it and exits with 1.
Uncaught(err) == [code |-> 1, by |-> err]

\* main() ran to its end.
Finished == [code |-> 0, by |-> "end"]

(***************************************************************************)
(* tui_select_playlists.                                                   *)
(***************************************************************************)
API_BASE == "https://api.spotify.com/v1/"

\* A playlist object of the playlists listing.
Playlist(i) ==
    [id |-> i,
     name |-> "playlist " \o ToString(i),
     tracks |-> [href |-> <<API_BASE, "playlists/" \o ToString(i) \o "/tracks">>]]

Keys == {"KEY_UP", "KEY_DOWN", " ", "+", "-", "\n", "q"}

\* selected after `reorder the selected list to match the new order`.
Reordered(list, sel) == Filter(list, sel)

\* The toggle without its membership test: the playlist is always appended.
ToggledAppending(sel, p) == Append(sel, p)

\* The toggle as a single choice: selecting a playlist drops the others.
ToggledAlone(sel, p) == IF In(p, sel) THEN <<>> ELSE <<p>>

\* selected after the toggle of playlist p.
Toggled(sel, p) == IF In(p, sel) THEN Remove(sel, p) ELSE Append(sel, p)

\* The cursor-down test written as current_row < len(playlists).
HasRowBelowOrIsLast(current, list) == current < Len(list)

\* current_row < len(playlists) - 1
HasRowBelow(current, list) == current < Len(list) - 1

\* One turn of curses_main's loop: getch returns k.
TuiKey(k) ==
    /\ pc = "tui"
    /\ key' = <<k>>
    /\ LET n == Len(playlist_data)
           row == current_row + 1
       IN  IF k = "KEY_UP" /\ current_row > 0
           THEN /\ current_row' = current_row - 1
                /\ UNCHANGED <<playlist_data, selected, selected_playlists, pc, exit>>
           ELSE IF k = "KEY_DOWN" /\ HasRowBelow(current_row, playlist_data)
           THEN /\ current_row' = current_row + 1
                /\ UNCHANGED <<playlist_data, selected, selected_playlists, pc, exit>>
           ELSE IF k = " "
           THEN IF n = 0
                THEN \* playlists[0] of an empty list
                     /\ pc' = "exited"
                     /\ exit' = Uncaught("IndexError")
                     /\ UNCHANGED <<playlist_data, selected, selected_playlists,
                                    current_row>>
                ELSE /\ selected' = Toggled(selected, playlist_data[row])
                     /\ UNCHANGED <<playlist_data, current_row, selected_playlists,
                                    pc, exit>>
           ELSE IF k = "+" /\ current_row > 0
           THEN /\ playlist_data' = Swap(playlist_data, row, row - 1)
                /\ current_row' = current_row - 1
                /\ selected' = Reordered(playlist_data', selected)
                /\ UNCHANGED <<selected_playlists, pc, exit>>
           ELSE IF k = "-" /\ current_row < n - 1
           THEN /\ playlist_data' = Swap(playlist_data, row, row + 1)
                /\ current_row' = current_row + 1
                /\ selected' = Reordered(playlist_data', selected)
                /\ UNCHANGED <<selected_playlists, pc, exit>>
           ELSE IF k = "\n"
           THEN \* break; curses.wrapper returns; return selected
                /\ selected_playlists' = selected
                /\ pc' = "check_selection"
                /\ UNCHANGED <<playlist_data, selected, current_row, exit>>
           ELSE UNCHANGED <<playlist_data, selected, current_row,
                            selected_playlists, pc, exit>>
    /\ UNCHANGED <<args, served, spotify, me, srv, g, lst, liked_tracks,
                   liked_albums, pl, sort_keys, playlists, file>>

GetKey == \E k \in Keys : TuiKey(k)

(***************************************************************************)
(* The remote service.  srv maps a resource to its chain of pages; page k  *)
(* of a resource is answered with its items, the URL of page k + 1 (or     *)
(* null, the empty URL, on the last page) and the size of the collection.  *)
(***************************************************************************)
RECURSIVE Concat(_)
\* The items of a chain of pages, in page order.
Concat(chain) == IF chain = <<>> THEN <<>> ELSE Head(chain) \o Concat(Tail(chain))

\* The cursor parameter by which the service names page k.
PageParam(k) == "page=" \o ToString(k)

\* The absolute URL the service gives for page k of resource r.
PageUrl(r, k) == <<API_BASE, r, "?", PageParam(k)>>

\* The paging object of page k of resource r.
Page(r, k) ==
    [items |-> srv[r][k],
     next  |-> IF k < Len(srv[r]) THEN PageUrl(r, k + 1) ELSE <<>>,
     total |-> Len(Concat(srv[r]))]

\* The object of GET /v1/me.
User == [id |-> "u1", display_name |-> "User One"]

\* A JSON object without one of its keys.
Without(obj, k) == [f \in DOMAIN obj \ {k} |-> obj[f]]

\* The page a URL of a known resource asks for: the one its cursor names, else
\* the first.
PageIndex(url) ==
    IF Len(url) >= 4 /\ \E k \in 1..Len(srv[url[2]]) : url[4] = PageParam(k)
    THEN CHOOSE k \in 1..Len(srv[url[2]]) : url[4] = PageParam(k)
    ELSE 1

\* Another absolute prefix under which the service may name its next page: a
\* URL for which url.startswith(API_BASE) is false.
OTHER_BASE == "https://api.spotify.com/v2/"

\* A paging object with its `next`, if it has one, given under OTHER_BASE.
Elsewhere(page) ==
    IF page.next = <<>> THEN page
    ELSE [page EXCEPT !.next = <<OTHER_BASE>> \o Tail(page.next)]

\* The JSON bodies the service may answer a URL with: the object asked for
\* (its `next` under either prefix), or a paging object that lacks `items` or
\* `next`; none for a URL it does not serve (an HTTP error).
Bodies(url) ==
    IF url = <<API_BASE, "me">> THEN {User}
    ELSE IF Len(url) >= 2 /\ url[1] \in {API_BASE, OTHER_BASE} /\ url[2] \in DOMAIN srv
    THEN LET page == Page(url[2], PageIndex(url))
         IN  {page, Elsewhere(page), Without(page, "items"), Without(page, "next")}
    ELSE {}

\* What one urlopen + json.load may come to: an exception, or a decoded body.
Outcomes(url) == {[ok |-> FALSE]} \cup {[ok |-> TRUE, body |-> b] : b \in Bodies(url)}

(***************************************************************************)
(* SpotifyAPI.get.                                                         *)
(***************************************************************************)
TRIES == 3

\* url.startswith("https://api.spotify.com/v1/")
StartsWithBase(url) == url # <<>> /\ url[1] = API_BASE

\* get prefixing every url, with no startswith test.
BuildUrlPrefixing(url, params) ==
    LET abs == <<API_BASE>> \o url
    IN  IF params # <<>>
        THEN abs \o <<IF In("?", abs) THEN "&" ELSE "?">> \o params
        ELSE abs

\* The URL get requests for its arguments; params is the urlencoded query.
BuildUrl(url, params) ==
    LET abs == IF StartsWithBase(url) THEN url ELSE <<API_BASE>> \o url
    IN  IF params # <<>>
        THEN abs \o <<IF In("?", abs) THEN "&" ELSE "?">> \o params
        ELSE abs

NoGet == [st |-> "idle", url |-> <<>>, log |-> <<>>, res |-> <<>>]

\* get(url, params) is entered.
NewGet(url, params) ==
    [st |-> "running", url |-> BuildUrl(url, params), log |-> <<>>, res |-> <<>>]

\* get with range(tries - 1): it gives up one attempt early.
AfterAttemptImpatient(gf, out) ==
    LET log == Append(gf.log, out)
    IN  IF out.ok
        THEN [gf EXCEPT !.st = "returned", !.log = log, !.res = <<out.body>>]
        ELSE IF Len(log) < TRIES - 1
        THEN [gf EXCEPT !.log = log]
        ELSE [gf EXCEPT !.st = "exited", !.log = log]

\* get with the shape of the body checked inside its try: a paging object
\* without `items` or `next` counts as a failed attempt.
AfterAttemptValidating(gf, out) ==
    LET log == Append(gf.log, out)
    IN  IF out.ok /\ {"items", "next"} \subseteq DOMAIN out.body
        THEN [gf EXCEPT !.st = "returned", !.log = log, !.res = <<out.body>>]
        ELSE IF Len(log) < TRIES
        THEN [gf EXCEPT !.log = log]
        ELSE [gf EXCEPT !.st = "exited", !.log = log]

\* get with range(tries + 1): one attempt more than its budget.
AfterAttemptPatient(gf, out) ==
    LET log == Append(gf.log, out)
    IN  IF out.ok
        THEN [gf EXCEPT !.st = "returned", !.log = log, !.res = <<out.body>>]
        ELSE IF Len(log) < TRIES + 1
        THEN [gf EXCEPT !.log = log]
        ELSE [gf EXCEPT !.st = "exited", !.log = log]

\* One turn of get's `for _ in range(tries)` with the outcome out: return the
\* decoded body, or log, sleep and go on; sys.exit(1) once the range is spent.
AfterAttempt(gf, out) ==
    LET log == Append(gf.log, out)
    IN  IF out.ok
        THEN [gf EXCEPT !.st = "returned", !.log = log, !.res = <<out.body>>]
        ELSE IF Len(log) < TRIES
        THEN [gf EXCEPT !.log = log]
        ELSE [gf EXCEPT !.st = "exited", !.log = log]

Attempt ==
    /\ g.st = "running"
    /\ \E out \in Outcomes(g.url) :
          /\ g' = AfterAttempt(g, out)
          /\ IF g'.st = "exited"
             THEN pc' = "exited" /\ exit' = SysExit
             ELSE UNCHANGED <<pc, exit>>
    /\ UNCHANGED <<args, served, spotify, me, srv, lst, liked_tracks, liked_albums,
                   playlist_data, selected, current_row, key, selected_playlists,
                   pl, sort_keys, playlists, file>>

(***************************************************************************)
(* SpotifyAPI.list.                                                        *)
(***************************************************************************)
\* The frame of a list call: its locals, and for the requests it has made
\* through the get calls that returned to it, the number of those calls (gets)
\* and of their urlopen attempts (tries).
NoList ==
    [st |-> "idle", url |-> <<>>, items |-> <<>>, response |-> <<>>,
     gets |-> 0, tries |-> 0]

\* list(url, params) is entered and calls get(url, params).
NewList(url) ==
    [st |-> "running", url |-> url, items |-> <<>>, response |-> <<>>,
     gets |-> 0, tries |-> 0]

\* list with `items = response["items"]` in its loop too.
AccumulateLatest(items, response) == response.items

\* items = response["items"], then items += response["items"].
Accumulate(items, response) == items \o response.items

\* get has returned to list: take the items of the response, then follow its
\* `next` or return.  A response without the key is a KeyError.
ListAfterGet ==
    /\ lst.st = "running"
    /\ g.st = "returned"
    /\ LET response == g.res[1]
       IN  IF "items" \notin DOMAIN response \/ "next" \notin DOMAIN response
           THEN /\ lst' = [lst EXCEPT !.st = "raised", !.response = <<response>>,
                                      !.gets = @ + 1, !.tries = @ + Len(g.log)]
                /\ pc' = "exited"
                /\ exit' = Uncaught("KeyError")
                /\ UNCHANGED g
           ELSE /\ UNCHANGED <<pc, exit>>
                /\ IF response.next # <<>>
                   THEN /\ lst' = [lst EXCEPT !.items = Accumulate(lst.items, response),
                                              !.response = <<response>>,
                                              !.gets = @ + 1, !.tries = @ + Len(g.log)]
                        /\ g' = NewGet(response.next, <<>>)
                   ELSE /\ lst' = [lst EXCEPT !.st = "returned",
                                              !.items = Accumulate(lst.items, response),
                                              !.response = <<response>>,
                                              !.gets = @ + 1, !.tries = @ + Len(g.log)]
                        /\ g' = NoGet
    /\ UNCHANGED <<args, served, spotify, me, srv, liked_tracks, liked_albums,
                   playlist_data, selected, current_row, key, selected_playlists,
                   pl, sort_keys, playlists, file>>

(***************************************************************************)
(* SpotifyAPI.authorize and its local listener.                            *)
(***************************************************************************)
REDIRECT == <<"/", "r", "e", "d", "i", "r", "e", "c", "t">>

TOKEN_Q == <<"/", "t", "o", "k", "e", "n", "?">>

ACCESS_TOKEN_EQ == <<"a", "c", "c", "e", "s", "s", "_", "t", "o", "k", "e", "n", "=">>

\* s.startswith(p)
IsPrefix(p, s) == Len(p) <= Len(s) /\ SubSeq(s, 1, Len(p)) = p

\* re.search("access_token=([^&]*)", path): <<>> for None, else <<group(1)>>,
\* the characters after the leftmost access_token= up to the next & or the end.
Search(path) ==
    LET n == Len(ACCESS_TOKEN_EQ)
        at == {i \in 1..(Len(path) - n + 1) : SubSeq(path, i, i + n - 1) = ACCESS_TOKEN_EQ}
    IN  IF at = {} THEN <<>>
        ELSE LET i == CHOOSE j \in at : \A k \in at : j <= k
                 from == i + n
                 amps == {j \in from..Len(path) : path[j] = "&"}
                 to == IF amps = {} THEN Len(path) + 1
                       ELSE CHOOSE j \in amps : \A k \in amps : j <= k
             IN  <<SubSeq(path, from, to - 1)>>

\* What do_GET writes for a path: the redirecting page, the confirmation, or 404.
Response(path) ==
    IF IsPrefix(REDIRECT, path) THEN [path |-> path, status |-> 200, body |-> "redirect"]
    ELSE IF IsPrefix(TOKEN_Q, path) THEN [path |-> path, status |-> 200, body |-> "thanks"]
    ELSE [path |-> path, status |-> 404, body |-> "error"]

\* do_GET with the token route tested as startswith("/token").
IsTokenRouteLoose(path) ==
    ~IsPrefix(REDIRECT, path) /\ IsPrefix(<<"/", "t", "o", "k", "e", "n">>, path)

\* Whether do_GET reaches its re.search for a path.
IsTokenRoute(path) == ~IsPrefix(REDIRECT, path) /\ IsPrefix(TOKEN_Q, path)

\* handle_request with the server's default handle_error, which reports a
\* handler's exception and lets the loop go on to the next request.
HandleRequestReporting(path) ==
    /\ pc = "authorize"
    /\ Len(served) < MaxRequests
    /\ served' = Append(served, Response(path))
    /\ IF IsTokenRoute(path) /\ Search(path) # <<>>
       THEN /\ pc' = "authorized"
            /\ spotify' = Search(path)
            /\ UNCHANGED exit
       ELSE UNCHANGED <<pc, spotify, exit>>
    /\ UNCHANGED <<args, me, srv, g, lst, liked_tracks, liked_albums, playlist_data,
                   selected, current_row, key, selected_playlists, pl, sort_keys,
                   playlists, file>>

\* handle_request in a loop that the capture does not leave: requests are
\* still handled after a token was taken.
HandleRequestAfterCapture(path) ==
    /\ pc \in {"authorize", "authorized"}
    /\ Len(served) < MaxRequests
    /\ served' = Append(served, Response(path))
    /\ IF IsTokenRoute(path)
       THEN IF Search(path) = <<>>
            THEN /\ pc' = "exited"
                 /\ exit' = Uncaught("AttributeError")
                 /\ UNCHANGED spotify
            ELSE /\ pc' = "authorized"
                 /\ spotify' = Search(path)
                 /\ UNCHANGED exit
       ELSE UNCHANGED <<pc, spotify, exit>>
    /\ UNCHANGED <<args, me, srv, g, lst, liked_tracks, liked_albums, playlist_data,
                   selected, current_row, key, selected_playlists, pl, sort_keys,
                   playlists, file>>

\* One server.handle_request() of authorize's loop, for a GET of path: do_GET
\* answers; on the token route it then raises _Authorization(access_token),
\* which handle_error re-raises and authorize turns into SpotifyAPI(token); a
\* None from re.search is an AttributeError that nothing catches.
HandleRequest(path) ==
    /\ pc = "authorize"
    /\ Len(served) < MaxRequests
    /\ served' = Append(served, Response(path))
    /\ IF IsTokenRoute(path)
       THEN IF Search(path) = <<>>
            THEN /\ pc' = "exited"
                 /\ exit' = Uncaught("AttributeError")
                 /\ UNCHANGED spotify
            ELSE /\ pc' = "authorized"
                 /\ spotify' = Search(path)
                 /\ UNCHANGED exit
       ELSE UNCHANGED <<pc, spotify, exit>>
    /\ UNCHANGED <<args, me, srv, g, lst, liked_tracks, liked_albums, playlist_data,
                   selected, current_row, key, selected_playlists, pl, sort_keys,
                   playlists, file>>

\* The request paths the listener is sent.
Paths ==
    { REDIRECT,
      TOKEN_Q \o ACCESS_TOKEN_EQ \o <<"a", "b", "c", "1", "2", "3", "&">>
              \o <<"s", "t", "a", "t", "e", "=", "x", "y", "z">>,
      TOKEN_Q \o ACCESS_TOKEN_EQ \o <<"t", "2">>,
      TOKEN_Q \o <<"s", "t", "a", "t", "e", "=", "x", "y", "z", "&">>
              \o ACCESS_TOKEN_EQ \o <<"a", "b", "c", "1", "2", "3">>,
      TOKEN_Q \o <<"x">> \o ACCESS_TOKEN_EQ \o <<"b", "a", "d", "&">>
              \o ACCESS_TOKEN_EQ \o <<"a", "b", "c", "1", "2", "3">>,
      TOKEN_Q \o <<"s", "t", "a", "t", "e", "=", "x", "y", "z">>,
      <<"/", "t", "o", "k", "e", "n">>,
      <<"/">> }

Request == \E path \in Paths : HandleRequest(path)

(***************************************************************************)
(* main: the sort of a playlist's tracks.                                  *)
(***************************************************************************)
EPOCH == 0

\* playlist_creation_date
CreationDate(playlist) ==
    IF "created_at" \in DOMAIN playlist THEN playlist.created_at ELSE EPOCH

\* The sort's key function.
SortKey(track, creation) ==
    IF "added_at" \in DOMAIN track THEN track.added_at ELSE creation

\* list.sort keeps equal keys in their order, also with reverse=True: a track
\* goes behind every track already placed whose key is not smaller.
Insert(sorted, track, creation) ==
    LET n == Cardinality({i \in 1..Len(sorted) :
                 SortKey(sorted[i], creation) >= SortKey(track, creation)})
    IN  SubSeq(sorted, 1, n) \o <<track>> \o SubSeq(sorted, n + 1, Len(sorted))

RECURSIVE Sorted(_, _)
\* tracks.sort(key=..., reverse=True)
Sorted(tracks, creation) ==
    IF tracks = <<>> THEN <<>>
    ELSE Insert(Sorted(SubSeq(tracks, 1, Len(tracks) - 1), creation),
                tracks[Len(tracks)], creation)

(***************************************************************************)
(* main.                                                                   *)
(***************************************************************************)
DumpsLiked(dump) == dump \in {"liked,playlists", "playlists,liked", "liked"}

DumpsPlaylists(dump) == dump \in {"liked,playlists", "playlists,liked", "playlists"}

LIMIT_50 == <<"limit=50">>

LIMIT_100 == <<"limit=100">>

PlaylistsUrl(user) == <<"users/" \o user.id \o "/playlists">>

\* if args.token: spotify = SpotifyAPI(args.token), then me = spotify.get("me");
\* else SpotifyAPI.authorize starts its listener.
Login ==
    /\ pc = "login"
    /\ IF args.token # <<>>
       THEN /\ spotify' = <<args.token>>
            /\ g' = NewGet(<<"me">>, <<>>)
            /\ pc' = "me"
       ELSE /\ pc' = "authorize"
            /\ UNCHANGED <<spotify, g>>
    /\ UNCHANGED <<args, served, me, srv, lst, liked_tracks, liked_albums,
                   playlist_data, selected, current_row, key, selected_playlists,
                   pl, sort_keys, playlists, file, exit>>

\* authorize has returned (its listener is gone): me = spotify.get("me").
Authorized ==
    /\ pc = "authorized"
    /\ served' = <<>>
    /\ g' = NewGet(<<"me">>, <<>>)
    /\ pc' = "me"
    /\ UNCHANGED <<args, spotify, me, srv, lst, liked_tracks, liked_albums,
                   playlist_data, selected, current_row, key, selected_playlists,
                   pl, sort_keys, playlists, file, exit>>

\* me is there: list the liked tracks, or else the playlists.
GotMe ==
    /\ pc = "me"
    /\ g.st = "returned"
    /\ me' = g.res[1]
    /\ IF DumpsLiked(args.dump)
       THEN /\ lst' = NewList(<<"me/tracks">>)
            /\ g' = NewGet(<<"me/tracks">>, LIMIT_50)
            /\ pc' = "liked_tracks"
       ELSE /\ lst' = NewList(PlaylistsUrl(me'))
            /\ g' = NewGet(PlaylistsUrl(me'), LIMIT_50)
            /\ pc' = "playlists"
    /\ UNCHANGED <<args, served, spotify, srv, liked_tracks, liked_albums,
                   playlist_data, selected, current_row, key, selected_playlists,
                   pl, sort_keys, playlists, file, exit>>

\* liked_tracks = spotify.list("me/tracks"), then the albums are listed.
GotLikedTracks ==
    /\ pc = "liked_tracks"
    /\ lst.st = "returned"
    /\ liked_tracks' = lst.items
    /\ lst' = NewList(<<"me/albums">>)
    /\ g' = NewGet(<<"me/albums">>, LIMIT_50)
    /\ pc' = "liked_albums"
    /\ UNCHANGED <<args, served, spotify, me, srv, liked_albums, playlist_data,
                   selected, current_row, key, selected_playlists, pl, sort_keys,
                   playlists, file, exit>>

\* liked_albums = spotify.list("me/albums"); Liked Songs joins playlists; then
\* the playlists are listed, or the file is due.
GotLikedAlbums ==
    /\ pc = "liked_albums"
    /\ lst.st = "returned"
    /\ liked_albums' = lst.items
    /\ playlists' = playlists \o <<[name |-> "Liked Songs", tracks |-> liked_tracks]>>
    /\ IF DumpsPlaylists(args.dump)
       THEN /\ lst' = NewList(PlaylistsUrl(me))
            /\ g' = NewGet(PlaylistsUrl(me), LIMIT_50)
            /\ pc' = "playlists"
       ELSE /\ lst' = NoList
            /\ pc' = "write"
            /\ UNCHANGED g
    /\ UNCHANGED <<args, served, spotify, me, srv, liked_tracks, playlist_data,
                   selected, current_row, key, selected_playlists, pl, sort_keys,
                   file, exit>>

\* playlist_data is listed and reversed; tui_select_playlists starts.
GotPlaylists ==
    /\ pc = "playlists"
    /\ lst.st = "returned"
    /\ playlist_data' = Reverse(lst.items)
    /\ lst' = NoList
    /\ selected' = <<>>
    /\ current_row' = 0
    /\ pc' = "tui"
    /\ UNCHANGED <<args, served, spotify, me, srv, g, liked_tracks, liked_albums,
                   key, selected_playlists, pl, sort_keys, playlists, file, exit>>

\* main doing what its log line says on an empty selection: all playlists are
\* taken instead of the exit.
CheckSelectionAddingAll ==
    /\ pc = "check_selection"
    /\ LET chosen == IF selected_playlists = <<>> THEN playlist_data
                     ELSE selected_playlists
       IN  /\ selected_playlists' = chosen
           /\ IF chosen = <<>>
              THEN /\ pc' = "write"
                   /\ UNCHANGED <<pl, lst, g>>
              ELSE /\ pl' = 1
                   /\ lst' = NewList(chosen[1].tracks.href)
                   /\ g' = NewGet(chosen[1].tracks.href, LIMIT_100)
                   /\ pc' = "tracks"
    /\ current_row' = 0
    /\ key' = <<>>
    /\ UNCHANGED <<args, served, spotify, me, srv, liked_tracks, liked_albums,
                   playlist_data, selected, sort_keys, playlists, file, exit>>

\* main walking the selected playlists in the order they have in the playlist
\* list instead of the order the selection returned them in.
CheckSelectionInListOrder ==
    /\ pc = "check_selection"
    /\ LET ordered == Filter(playlist_data, selected_playlists)
       IN  /\ selected_playlists' = ordered
           /\ IF ordered = <<>>
              THEN /\ pc' = "exited"
                   /\ exit' = SysExit
                   /\ UNCHANGED <<pl, lst, g>>
              ELSE /\ pl' = 1
                   /\ lst' = NewList(ordered[1].tracks.href)
                   /\ g' = NewGet(ordered[1].tracks.href, LIMIT_100)
                   /\ pc' = "tracks"
                   /\ UNCHANGED exit
    /\ current_row' = 0
    /\ key' = <<>>
    /\ UNCHANGED <<args, served, spotify, me, srv, liked_tracks, liked_albums,
                   playlist_data, selected, sort_keys, playlists, file>>

\* if not selected_playlists: sys.exit(1); else the loop over them starts with
\* the listing of the first one's tracks.
CheckSelection ==
    /\ pc = "check_selection"
    /\ IF selected_playlists = <<>>
       THEN /\ pc' = "exited"
            /\ exit' = SysExit
            /\ UNCHANGED <<pl, lst, g>>
       ELSE /\ pl' = 1
            /\ lst' = NewList(selected_playlists[1].tracks.href)
            /\ g' = NewGet(selected_playlists[1].tracks.href, LIMIT_100)
            /\ pc' = "tracks"
            /\ UNCHANGED exit
    /\ current_row' = 0
    /\ key' = <<>>
    /\ UNCHANGED <<args, served, spotify, me, srv, liked_tracks, liked_albums,
                   playlist_data, selected, selected_playlists, sort_keys,
                   playlists, file>>

\* playlist["tracks"] = spotify.list(href) and its sort; then the next selected
\* playlist, or playlists += selected_playlists.
GotTracks ==
    /\ pc = "tracks"
    /\ lst.st = "returned"
    /\ LET playlist == selected_playlists[pl]
           creation == CreationDate(playlist)
           tracks == Sorted(lst.items, creation)
           done == [selected_playlists EXCEPT ![pl].tracks = tracks]
       IN  /\ selected_playlists' = done
           /\ sort_keys' = [i \in 1..Len(tracks) |-> SortKey(tracks[i], creation)]
           /\ IF pl < Len(selected_playlists)
              THEN /\ pl' = pl + 1
                   /\ lst' = NewList(selected_playlists[pl + 1].tracks.href)
                   /\ g' = NewGet(selected_playlists[pl + 1].tracks.href, LIMIT_100)
                   /\ UNCHANGED <<pc, playlists>>
              ELSE /\ playlists' = playlists \o done
                   /\ lst' = NoList
                   /\ pc' = "write"
                   /\ UNCHANGED <<pl, g>>
    /\ UNCHANGED <<args, served, spotify, me, srv, liked_tracks, liked_albums,
                   playlist_data, selected, current_row, key, file, exit>>

\* main opening the file before the tracks of the selected playlists are
\* listed, to write the dump as it goes.
WriteBeforeFetch ==
    /\ pc \in {"write", "check_selection"}
    /\ file' = <<[playlists |-> playlists, albums |-> liked_albums]>>
    /\ IF pc = "write"
       THEN pc' = "done" /\ exit' = Finished
       ELSE file = <<>> /\ UNCHANGED <<pc, exit>>
    /\ UNCHANGED <<args, served, spotify, me, srv, g, lst, liked_tracks,
                   liked_albums, playlist_data, selected, current_row, key,
                   selected_playlists, pl, sort_keys, playlists>>

\* with open(args.file, "w"): the dump of playlists and liked_albums.
Write ==
    /\ pc = "write"
    /\ file' = <<[playlists |-> playlists, albums |-> liked_albums]>>
    /\ pc' = "done"
    /\ exit' = Finished
    /\ UNCHANGED <<args, served, spotify, me, srv, g, lst, liked_tracks,
                   liked_albums, playlist_data, selected, current_row, key,
                   selected_playlists, pl, sort_keys, playlists>>

(***************************************************************************)
(* The runs checked.                                                       *)
(***************************************************************************)
\* A track object of a playlist with its added_at, and one without.
Track(i, t) == [id |-> i, added_at |-> t]

OldTrack(i) == [id |-> i]

RECURSIVE Paginate(_, _)
\* A collection cut into pages of size items; an empty one is one empty page.
Paginate(items, size) ==
    IF Len(items) <= size THEN <<items>>
    ELSE <<SubSeq(items, 1, size)>> \o Paginate(SubSeq(items, size + 1, Len(items)), size)

\* The account of the whole runs: liked tracks and albums, n playlists of
\* which the odd ones carry a created_at, and their tracks.
AccountPlaylist(i) ==
    IF i % 2 = 1 THEN [f \in DOMAIN Playlist(i) \cup {"created_at"} |->
                          IF f = "created_at" THEN 2 ELSE Playlist(i)[f]]
    ELSE Playlist(i)

AccountTracks(i) ==
    IF i % 2 = 1 THEN <<Track(1, 2), OldTrack(2), Track(3, 3)>>
    ELSE <<OldTrack(1), Track(2, 1), Track(3, 1)>>

TracksResource(i) == Playlist(i).tracks.href[2]

Account(n) ==
    [r \in {"me/tracks", "me/albums", PlaylistsUrl(User)[1]}
           \cup {TracksResource(i) : i \in 1..n} |->
        Paginate(IF r = "me/tracks" THEN <<Track(1, 1), Track(2, 2), Track(3, 3)>>
                 ELSE IF r = "me/albums" THEN <<[album |-> 1]>>
                 ELSE IF r = PlaylistsUrl(User)[1] THEN [i \in 1..n |-> AccountPlaylist(i)]
                 ELSE AccountTracks(CHOOSE i \in 1..n : TracksResource(i) = r),
                 PageSize)]

TOKEN == <<"t", "k", "n">>

Dumps == {"liked,playlists", "playlists,liked", "playlists", "liked"}

\* A whole run, from the parsed command line on.
Init ==
    /\ pc = "login"
    /\ args \in [dump : Dumps, token : {<<>>, TOKEN}]
    /\ served = <<>>
    /\ spotify = <<>>
    /\ me = <<>>
    /\ srv \in {Account(n) : n \in 0..MainPlaylists}
    /\ g = NoGet
    /\ lst = NoList
    /\ liked_tracks = <<>>
    /\ liked_albums = <<>>
    /\ playlist_data = <<>>
    /\ selected = <<>>
    /\ current_row = 0
    /\ key = <<>>
    /\ selected_playlists = <<>>
    /\ pl = 0
    /\ sort_keys = <<>>
    /\ playlists = <<>>
    /\ file = <<>>
    /\ exit = Running

Next ==
    \/ Login
    \/ Request
    \/ Authorized
    \/ Attempt
    \/ ListAfterGet
    \/ GotMe
    \/ GotLikedTracks
    \/ GotLikedAlbums
    \/ GotPlaylists
    \/ GetKey
    \/ CheckSelection
    \/ GotTracks
    \/ Write

Spec == Init /\ [][Next]_vars

\* The selection alone: tui_select_playlists is entered with the reversed
\* listing of an account of up to MaxPlaylists playlists.
InitTui ==
    /\ pc = "tui"
    /\ args = [dump |-> "playlists", token |-> TOKEN]
    /\ served = <<>>
    /\ spotify = <<TOKEN>>
    /\ me = User
    /\ srv \in {Account(n) : n \in 0..MaxPlaylists}
    /\ g = NoGet
    /\ lst = NoList
    /\ liked_tracks = <<>>
    /\ liked_albums = <<>>
    /\ playlist_data = Reverse(Concat(srv[PlaylistsUrl(User)[1]]))
    /\ selected = <<>>
    /\ current_row = 0
    /\ key = <<>>
    /\ selected_playlists = <<>>
    /\ pl = 0
    /\ sort_keys = <<>>
    /\ playlists = <<>>
    /\ file = <<>>
    /\ exit = Running

NextTui == GetKey

SpecTui == InitTui /\ [][NextTui]_vars

\* The chains of up to MaxPages pages that hold the items 1..n, n <= MaxItems,
\* in order: page k ends after item cut[k].
Chains ==
    UNION {UNION {{[k \in 1..np |->
                      [j \in 1..(cut[k] - (IF k = 1 THEN 0 ELSE cut[k - 1])) |->
                          OldTrack((IF k = 1 THEN 0 ELSE cut[k - 1]) + j)]] :
                   cut \in {c \in [1..np -> 0..n] :
                              /\ c[np] = n
                              /\ \A k \in 1..(np - 1) : c[k] <= c[k + 1]}} :
                  np \in 1..MaxPages} :
           n \in 0..MaxItems}

\* The client alone: main calls spotify.list("me/tracks", {"limit": 50}) on a
\* service whose liked tracks form any of the chains.
InitClient ==
    /\ pc = "liked_tracks"
    /\ args = [dump |-> "liked", token |-> TOKEN]
    /\ served = <<>>
    /\ spotify = <<TOKEN>>
    /\ me = User
    /\ srv \in {[r \in {"me/tracks", "me/albums"} |->
                    IF r = "me/tracks" THEN chain ELSE <<<<>>>>] : chain \in Chains}
    /\ g = NewGet(<<"me/tracks">>, LIMIT_50)
    /\ lst = NewList(<<"me/tracks">>)
    /\ liked_tracks = <<>>
    /\ liked_albums = <<>>
    /\ playlist_data = <<>>
    /\ selected = <<>>
    /\ current_row = 0
    /\ key = <<>>
    /\ selected_playlists = <<>>
    /\ pl = 0
    /\ sort_keys = <<>>
    /\ playlists = <<>>
    /\ file = <<>>
    /\ exit = Running

NextClient == Attempt \/ ListAfterGet

SpecClient == InitClient /\ [][NextClient]_vars

\* The client runs on: its one thread is never held back for ever.
SpecClientFair == SpecClient /\ WF_vars(NextClient)

\* The track lists of up to MaxTracks tracks, each without added_at or with
\* one of 1..MaxTime.
TrackLists ==
    UNION {{[i \in 1..n |-> IF t[i] = 0 THEN OldTrack(i) ELSE Track(i, t[i])] :
            t \in [1..n -> 0..MaxTime]} : n \in 0..MaxTracks}

\* Playlist 1 without created_at, or created at one of 1..MaxTime.
CreatedPlaylists ==
    {Playlist(1)} \cup
    {[f \in DOMAIN Playlist(1) \cup {"created_at"} |->
         IF f = "created_at" THEN t ELSE Playlist(1)[f]] : t \in 1..MaxTime}

\* The sort alone: the one selected playlist's tracks have just been listed.
InitSort ==
    /\ pc = "tracks"
    /\ args = [dump |-> "playlists", token |-> TOKEN]
    /\ served = <<>>
    /\ spotify = <<TOKEN>>
    /\ me = User
    /\ \E p \in CreatedPlaylists, tracks \in TrackLists :
          /\ srv = [r \in {PlaylistsUrl(User)[1], TracksResource(1)} |->
                       IF r = TracksResource(1) THEN <<tracks>> ELSE <<<<p>>>>]
          /\ playlist_data = <<p>>
          /\ selected = <<p>>
          /\ selected_playlists = <<p>>
          /\ lst = [st |-> "returned", url |-> p.tracks.href, items |-> tracks,
                    response |-> <<Page(TracksResource(1), 1)>>,
                    gets |-> 1, tries |-> 1]
    /\ g = NoGet
    /\ liked_tracks = <<>>
    /\ liked_albums = <<>>
    /\ current_row = 0
    /\ key = <<>>
    /\ pl = 1
    /\ sort_keys = <<>>
    /\ playlists = <<>>
    /\ file = <<>>
    /\ exit = Running

NextSort == GotTracks \/ Write

SpecSort == InitSort /\ [][NextSort]_vars

(***************************************************************************)
(* Properties.                                                             *)
(***************************************************************************)
Last(s) == s[Len(s)]

\* The ids of a list of playlists.
Ids(list) == [i \in 1..Len(list) |-> list[i].id]

\* The listing of the account's playlists as the selection receives it.
Offered == Reverse(Concat(srv[PlaylistsUrl(User)[1]]))

\* C1: whatever keys were pressed before confirm, tui_select_playlists returns
\* exactly the playlists selected at confirm time, in the relative order they
\* have in the final playlist list.
C1_ReturnsSelectionInListOrder ==
    pc = "check_selection" =>
        /\ Range(selected_playlists) = Range(selected)
        /\ selected_playlists = Filter(playlist_data, selected_playlists)

\* C2: a get whose transport fails twice and then succeeds returns the third
\* attempt's body; a get whose transport fails 3 times ends the process with a
\* non-zero status, without a fourth attempt and without a result.
C2_RetryPolicy ==
    LET n == Len(g.log)
        failed(k) == \A i \in 1..k : ~g.log[i].ok
    IN  /\ n <= 3
        /\ g.st = "running" => n < 3 /\ failed(n) /\ g.res = <<>>
        /\ g.st = "returned" =>
              /\ n >= 1 /\ failed(n - 1) /\ g.log[n].ok
              /\ g.res = <<g.log[n].body>>
              /\ exit.by # "sys.exit"
        /\ (n = 3 /\ failed(3)) =>
              g.st = "exited" /\ g.res = <<>> /\ pc = "exited" /\ exit = SysExit
        /\ g.st = "exited" => n = 3 /\ failed(3) /\ exit.code # 0

C2_ThirdAttemptReturned ==
    g.st = "returned" /\ Len(g.log) = 3 /\ ~g.log[1].ok /\ ~g.log[2].ok

\* The resource a list call was made for.
Listed == IF StartsWithBase(lst.url) THEN lst.url[2] ELSE lst.url[1]

\* C3: for a chain of N pages ending in a null cursor, list returns the
\* concatenation of the pages' items in page order, and as many items as the
\* final page's total says.
C3_ListConcatenatesPages ==
    lst.st = "returned" =>
        /\ lst.items = Concat(srv[Listed])
        /\ Len(lst.items) = lst.response[1].total

C3_ThreePagesListed ==
    /\ lst.st = "returned"
    /\ Len(srv[Listed]) = 3
    /\ \A k \in 1..3 : srv[Listed][k] # <<>>

\* The playlist whose tracks were sorted last (0: none yet).
SortedLast ==
    IF pc \in {"write", "done"} THEN Len(selected_playlists)
    ELSE IF pc = "tracks" THEN pl - 1
    ELSE 0

\* C4: a track without added_at in a playlist created at T is sorted by the key
\* T + 1 second.
C4_KeyIsCreationPlusOne ==
    SortedLast > 0 =>
        LET playlist == selected_playlists[SortedLast]
        IN  \A i \in 1..Len(playlist.tracks) :
               "added_at" \notin DOMAIN playlist.tracks[i] =>
                   sort_keys[i] = CreationDate(playlist) + 1

\* The tracks of a selected playlist as the service lists them.
Fetched(playlist) == Concat(srv[TracksResource(playlist.id)])

\* C5: the output file is opened only after every get and list of the run has
\* returned and, where playlists are dumped, the selection has returned a
\* non-empty list; a run that ends with a non-zero status has opened no file.
C5_FileOnlyAfterAssembly ==
    /\ exit.code # 0 => file = <<>>
    /\ file # <<>> =>
          /\ pc = "done" /\ exit = Finished
          /\ g.st = "idle" /\ lst.st = "idle"
          /\ me = User
          /\ DumpsPlaylists(args.dump) => selected # <<>>
          /\ DumpsLiked(args.dump) =>
                /\ liked_tracks = Concat(srv["me/tracks"])
                /\ liked_albums = Concat(srv["me/albums"])
          /\ DumpsPlaylists(args.dump) =>
                /\ Ids(selected_playlists) = Ids(selected)
                /\ \A i \in 1..Len(selected_playlists) :
                      /\ Len(selected_playlists[i].tracks) = Len(Fetched(selected[i]))
                      /\ Range(selected_playlists[i].tracks) = Range(Fetched(selected[i]))
          /\ file[1].albums = liked_albums
          /\ file[1].playlists =
                (IF DumpsLiked(args.dump)
                 THEN <<[name |-> "Liked Songs", tracks |-> liked_tracks]>> ELSE <<>>)
                \o (IF DumpsPlaylists(args.dump) THEN selected_playlists ELSE <<>>)

C5_FileOfLikedAndTwoPlaylists ==
    /\ file # <<>>
    /\ DumpsLiked(args.dump)
    /\ Len(selected) = 2

\* A paging object that lacks `items` or `next`.
Malformed(response) == ~({"items", "next"} \subseteq DOMAIN response)

\* C6 as claimed: a response without `items` (or `next`) is retried like a
\* transport failure, and the process ends through get's sys.exit(1) only.
C6_MalformedIsRetried ==
    /\ (lst.st # "idle" /\ g.st = "returned") => ~Malformed(g.res[1])
    /\ exit.code # 0 => exit = SysExit

\* C6 as amended: get returns such a response as a success; list raises a
\* KeyError outside get's retries, which ends the process with a non-zero
\* status at once, with no further attempt; the sys.exit(1) of get is reached
\* by transport failures alone.
C6_MalformedIsFatalUnretried ==
    /\ [](/\ lst.st = "raised" <=> exit = Uncaught("KeyError")
          /\ lst.st = "raised" =>
                /\ g.st = "returned" /\ Malformed(g.res[1]) /\ Last(g.log).ok
                /\ pc = "exited" /\ exit.code # 0
          /\ exit = SysExit => \A i \in 1..Len(g.log) : ~g.log[i].ok)
    /\ [][(lst.st = "running" /\ g.st = "returned" /\ Malformed(g.res[1])) =>
              (lst'.st = "raised" /\ exit' = Uncaught("KeyError") /\ g' = g)]_vars

C6_SecondPageMalformed ==
    /\ lst.st = "raised"
    /\ lst.items # <<>>
    /\ Len(g.log) = 1

\* C7: away from the boundary, move-up (move-down) swaps the playlist under
\* the cursor with its upper (lower) neighbour, the cursor follows it, and the
\* same playlists are selected before and after.
C7_MoveKeepsSelection ==
    [][pc = "tui" =>
          LET row == current_row + 1
              n == Len(playlist_data)
              moved(to) ==
                  /\ playlist_data' = [i \in 1..n |->
                        IF i = row THEN playlist_data[to]
                        ELSE IF i = to THEN playlist_data[row]
                        ELSE playlist_data[i]]
                  /\ current_row' + 1 = to
                  /\ playlist_data'[current_row' + 1] = playlist_data[row]
                  /\ Range(selected') = Range(selected)
                  /\ Len(selected') = Len(selected)
                  /\ pc' = "tui"
          IN  /\ (key' = <<"+">> /\ current_row > 0) => moved(row - 1)
              /\ (key' = <<"-">> /\ current_row < n - 1) => moved(row + 1)]_vars

\* [A, B, C] with B selected has become [B, A, C] by a move-up.
C7_SelectedPlaylistMovedUp ==
    /\ pc = "tui"
    /\ key = <<"+">>
    /\ Len(playlist_data) = 3
    /\ Ids(playlist_data) = <<Offered[2].id, Offered[1].id, Offered[3].id>>
    /\ Ids(selected) = <<Offered[2].id>>
    /\ current_row = 0

\* The effective timestamp of a track: added_at, else the playlist's creation
\* time plus one second.
Effective(track, playlist) ==
    IF "added_at" \in DOMAIN track THEN track.added_at
    ELSE CreationDate(playlist) + 1

\* The tracks of the playlist sorted last are a permutation of the listed
\* ones, descending by stamp, tracks of equal stamp in their listed order.
SortedBy(stamp(_, _)) ==
    SortedLast > 0 =>
        LET playlist == selected_playlists[SortedLast]
            out == playlist.tracks
            inp == Fetched(playlist)
            pos(t) == CHOOSE i \in 1..Len(inp) : inp[i] = t
        IN  /\ Len(out) = Len(inp)
            /\ Range(out) = Range(inp)
            /\ \A i, j \in 1..Len(out) : i < j =>
                  /\ stamp(out[i], playlist) >= stamp(out[j], playlist)
                  /\ stamp(out[i], playlist) = stamp(out[j], playlist) =>
                        pos(out[i]) < pos(out[j])

\* C8: the sorted tracks are a permutation of the fetched ones in descending
\* order of effective timestamp, and tracks of equal effective timestamp keep
\* the order of the service's response.
C8_SortedByEffectiveTimestamp == SortedBy(Effective)

\* C8 read on the key the sort computes (the creation time itself for a track
\* without added_at): descending and stable.
C8_SortedBySortKey == SortedBy(LAMBDA track, playlist : SortKey(track, CreationDate(playlist)))

\* Whether a path holds access_token= somewhere.
HasAccessToken(path) ==
    \E i \in 1..(Len(path) - Len(ACCESS_TOKEN_EQ) + 1) :
        SubSeq(path, i, i + Len(ACCESS_TOKEN_EQ) - 1) = ACCESS_TOKEN_EQ

\* Whether tok stands in path right after an access_token= and ends at an & or
\* at the end of the path.
IsTokenOf(tok, path) ==
    \E i \in 1..(Len(path) - Len(ACCESS_TOKEN_EQ) - Len(tok) + 1) :
        LET from == i + Len(ACCESS_TOKEN_EQ)
        IN  /\ SubSeq(path, i, from - 1) = ACCESS_TOKEN_EQ
            /\ SubSeq(path, from, from + Len(tok) - 1) = tok
            /\ "&" \notin Range(tok)
            /\ from + Len(tok) <= Len(path) => path[from + Len(tok)] = "&"

\* C9 as claimed: the loop of authorize ends exactly when a request of the
\* /token? route is handled, and then returns that request's token after the
\* confirmation was written; /redirect* and any other path never end it.
C9_TokenRouteReturnsToken ==
    \A i \in 1..Len(served) :
        IF IsPrefix(TOKEN_Q, served[i].path)
        THEN /\ i = Len(served)
             /\ served[i].status = 200 /\ served[i].body = "thanks"
             /\ pc = "authorized"
             /\ spotify # <<>>
        ELSE /\ i < Len(served) \/ pc = "authorize"
             /\ i = Len(served) => spotify = <<>>

\* C9 as amended: a /token? request always ends the loop after the
\* confirmation was written: with the token returned when the path holds
\* access_token=, with the handler's AttributeError and no token when it does
\* not; /redirect* (answered with the redirecting page) and any other path
\* (answered with 404) never end it and yield no token.
C9_CaptureLoop ==
    \A i \in 1..Len(served) :
        LET path == served[i].path
        IN  IF IsPrefix(TOKEN_Q, path)
            THEN /\ i = Len(served)
                 /\ served[i].status = 200 /\ served[i].body = "thanks"
                 /\ IF HasAccessToken(path)
                    THEN /\ pc = "authorized"
                         /\ exit = Running
                         /\ Len(spotify) = 1
                         /\ IsTokenOf(spotify[1], path)
                    ELSE /\ pc = "exited"
                         /\ exit = Uncaught("AttributeError")
                         /\ spotify = <<>>
            ELSE /\ i < Len(served) \/ (pc = "authorize" /\ exit = Running)
                 /\ i = Len(served) => spotify = <<>>
                 /\ IF IsPrefix(REDIRECT, path)
                    THEN served[i].status = 200 /\ served[i].body = "redirect"
                    ELSE served[i].status = 404

C9_TokenAfterRedirectAndMiss ==
    /\ pc = "authorized"
    /\ Len(served) = 3
    /\ served[1].body = "redirect"
    /\ served[2].status = 404
    /\ spotify = <<<<"a", "b", "c", "1", "2", "3">>>>

\* C10: a confirm with nothing selected ends the run with a non-zero status:
\* no listing of a playlist's tracks is issued and no file is written, also
\* when liked songs and albums were fetched before.
C10_EmptySelectionIsFatal ==
    /\ [][(pc = "check_selection" /\ selected_playlists = <<>>) =>
              /\ pc' = "exited" /\ exit' = SysExit /\ exit'.code # 0
              /\ g' = g /\ lst' = lst /\ g.st = "idle" /\ lst.st = "idle"
              /\ file' = <<>>
              /\ liked_tracks' = liked_tracks /\ liked_albums' = liked_albums]_vars
    /\ [](/\ (pc \in {"tracks", "write", "done"} /\ DumpsPlaylists(args.dump)) =>
                 selected # <<>>
          /\ (exit = SysExit /\ g.st = "idle") =>
                 /\ selected = <<>> /\ selected_playlists = <<>>
                 /\ file = <<>> /\ lst.st = "idle" /\ pl = 0)

C10_EmptySelectionAfterLiked ==
    /\ pc = "exited"
    /\ exit = SysExit
    /\ g.st = "idle"
    /\ selected = <<>>
    /\ playlist_data # <<>>
    /\ liked_tracks # <<>>
    /\ liked_albums # <<>>

\* The step in which a list call for a playlist's tracks begins.
TracksListingStarts ==
    /\ pc' = "tracks"
    /\ lst'.st = "running"
    /\ lst.st # "running"

\* The entries of the written bundle's playlists that come from the selection.
DumpedSelection ==
    LET all == file[1].playlists
        k == Len(all) - Len(selected)
    IN  [i \in 1..Len(selected) |-> all[k + i]]

\* C11: the tracks are listed one playlist at a time in the order of the list
\* the selection returned: the k-th listing begun is for the k-th returned
\* playlist, there are as many listings as returned playlists and none for
\* another playlist, and the bundle holds the returned playlists in that order.
C11_FetchedInReturnedOrder ==
    /\ [][TracksListingStarts =>
              /\ pl' = pl + 1
              /\ pl' \in 1..Len(selected)
              /\ lst'.url = selected[pl'].tracks.href
              /\ lst'.items = <<>>
              /\ g' = NewGet(selected[pl'].tracks.href, LIMIT_100)]_vars
    /\ [][pl' # pl => TracksListingStarts]_vars
    /\ [](/\ pc = "tracks" =>
                 /\ pl \in 1..Len(selected)
                 /\ lst.url = selected[pl].tracks.href
                 /\ Ids(selected_playlists) = Ids(selected)
          /\ (pc \in {"write", "done"} /\ DumpsPlaylists(args.dump)) =>
                 /\ pl = Len(selected)
                 /\ Ids(selected_playlists) = Ids(selected)
          /\ (file # <<>> /\ DumpsPlaylists(args.dump)) =>
                 /\ Len(file[1].playlists) >= Len(selected)
                 /\ Ids(DumpedSelection) = Ids(selected)
                 /\ \A i \in 1..Len(selected) :
                        DumpedSelection[i].tracks = selected_playlists[i].tracks)

\* Both playlists of the account dumped, selected in the reverse of their
\* order in the playlist list.
C11_TwoFetchedInToggleOrder ==
    /\ pc = "done"
    /\ Len(selected) = 2
    /\ Ids(selected) = Reverse(Ids(playlist_data))
    /\ Ids(DumpedSelection) = Ids(selected)

\* The positions in a path where a query parameter named access_token has its
\* name: at the start of the query or right after an &.
AccessTokenParams(path) ==
    LET n == Len(ACCESS_TOKEN_EQ)
        q == Len(TOKEN_Q) + 1
    IN  {i \in q..(Len(path) - n + 1) :
            /\ i = q \/ path[i - 1] = "&"
            /\ SubSeq(path, i, i + n - 1) = ACCESS_TOKEN_EQ}

\* The value of the query parameter whose name is at position i: the
\* characters after its = up to the next & or the end of the path.
ParamValue(path, i) ==
    LET from == i + Len(ACCESS_TOKEN_EQ)
        amps == {j \in from..Len(path) : path[j] = "&"}
        to == IF amps = {} THEN Len(path) + 1
              ELSE CHOOSE j \in amps : \A k \in amps : j <= k
    IN  SubSeq(path, from, to - 1)

\* C12: for every request path on the token route, the token authorize
\* returns is the value of the query parameter named access_token, whatever
\* other parameters precede or follow it.
C12_TokenIsAccessTokenParam ==
    pc = "authorized" =>
        \E i \in AccessTokenParams(Last(served).path) :
            spotify = <<ParamValue(Last(served).path, i)>>

\* The part of C12 that the code satisfies: the token is the access_token
\* parameter's value when no earlier text of the path contains access_token=.
C12_TokenOfLeadingParam ==
    LET path == Last(served).path
        first == Len(TOKEN_Q) + 1
    IN  (pc = "authorized" /\ ~HasAccessToken(SubSeq(path, 1, first - 1)))  =>
            \A i \in AccessTokenParams(path) :
                (\A j \in 1..(i - 1) : j + Len(ACCESS_TOKEN_EQ) - 1 <= Len(path) =>
                        SubSeq(path, j, j + Len(ACCESS_TOKEN_EQ) - 1) # ACCESS_TOKEN_EQ)
                    => spotify = <<ParamValue(path, i)>>

\* A request whose handler raises something other than the capture signal:
\* the token route without access_token=, where re.search returns None.
HandlerFaults(path) == IsTokenRoute(path) /\ Search(path) = <<>>

\* C13: when a request's handler raises an exception other than the capture
\* signal, the listener loop stops and authorize fails with that exception:
\* no further request is served and no token is returned.
C13_HandlerErrorEndsAuthorize ==
    /\ [](\A i \in 1..Len(served) :
              HandlerFaults(served[i].path) =>
                  /\ i = Len(served)
                  /\ pc = "exited"
                  /\ exit = Uncaught("AttributeError")
                  /\ spotify = <<>>
                  /\ g.st = "idle")
    /\ [][exit.by = "AttributeError" =>
              served' = served /\ spotify' = spotify /\ pc' = pc]_vars
    /\ [](exit.by = "AttributeError" =>
              served # <<>> /\ HandlerFaults(Last(served).path))

\* The faulting request came after the redirect page was served.
C13_FaultAfterRedirect ==
    /\ exit = Uncaught("AttributeError")
    /\ Len(served) = 2
    /\ served[1].body = "redirect"
    /\ HandlerFaults(served[2].path)

\* The states of a token capture, read off the listener: Captured once
\* authorize has its token, WaitingForToken once the redirecting page was
\* served, WaitingForRedirect before that.
Captured == pc = "authorized"

RedirectServed == \E i \in 1..Len(served) : served[i].body = "redirect"

\* C14: the capture goes WaitingForRedirect -> WaitingForToken -> Captured:
\* Captured is reached only after a /redirect request was served earlier in
\* the same capture, and Captured is terminal.
C14_CapturedOnlyAfterRedirect ==
    /\ Captured => RedirectServed
    /\ Captured => \A i \in 1..(Len(served) - 1) : ~IsTokenOf(served[i].path, spotify[1])

\* C14 as the code has it: Captured is reached by the first /token? request
\* that carries access_token=, whether or not a /redirect request was served
\* before it, and Captured is terminal: the capturing request is the last one
\* handled and the token is not replaced.
C14_CapturedIsTerminal ==
    /\ [][(pc = "authorize" /\ IsTokenRoute(Last(served').path)
              /\ Search(Last(served').path) # <<>> /\ served' # served) =>
                  Captured' /\ spotify' = Search(Last(served').path)]_vars
    /\ [][Captured' /\ ~Captured => pc = "authorize" /\ Len(served') = Len(served) + 1]_vars
    /\ [][Captured => (spotify' = spotify /\ served' = <<>> /\ ~Captured')]_vars
    /\ [][spotify # <<>> => spotify' = spotify]_vars
    /\ [][Len(served') > Len(served) => pc = "authorize"]_vars

\* A token captured by the first request the listener was sent.
C14_CapturedWithoutRedirect ==
    /\ Captured
    /\ Len(served) = 1
    /\ ~RedirectServed

\* The key the step handles.
Pressed(k) == pc = "tui" /\ key' = <<k>>

\* C15: for a non-empty playlist list and any keys, the cursor stays within
\* 0..len-1; cursor-up on the first row and cursor-down on the last row leave
\* it where it is, and elsewhere they move it by exactly one.
C15_CursorInBounds ==
    /\ [](playlist_data # <<>> => current_row \in 0..(Len(playlist_data) - 1))
    /\ [][(Pressed("KEY_UP") /\ playlist_data # <<>>) =>
              current_row' = IF current_row = 0 THEN 0 ELSE current_row - 1]_vars
    /\ [][(Pressed("KEY_DOWN") /\ playlist_data # <<>>) =>
              current_row' = IF current_row = Len(playlist_data) - 1
                             THEN current_row ELSE current_row + 1]_vars

\* The cursor brought down to the last of three rows.
C15_CursorOnLastRow ==
    /\ pc = "tui"
    /\ key = <<"KEY_DOWN">>
    /\ Len(playlist_data) = 3
    /\ current_row = 2

\* Whether list is waiting for a page after the first.
FollowingNext == lst.st = "running" /\ lst.response # <<>>

\* C16: for every page after the first, the URL list requests is the previous
\* response's `next` unchanged: get neither prefixes it with the API base nor
\* appends query parameters, for any absolute URL the service gives as `next`.
C16_NextRequestedVerbatim ==
    FollowingNext => g.url = lst.response[1].next

\* C16 for the URLs it holds for: a `next` that starts with the API base is
\* requested unchanged, without query parameters added; any other `next`, an
\* absolute one too, is requested with the API base put in front of it.
C16_NextUnderBaseVerbatim ==
    FollowingNext =>
        LET next == lst.response[1].next
        IN  /\ g.st # "idle"
            /\ StartsWithBase(next) => g.url = next
            /\ ~StartsWithBase(next) => g.url = <<API_BASE>> \o next

\* The second page of a chain answered, asked for by the `next` of the first.
C16_SecondPageReturned ==
    /\ FollowingNext
    /\ g.st = "returned"
    /\ StartsWithBase(lst.response[1].next)
    /\ g.res[1].items = srv[Listed][2]
    /\ srv[Listed][2] # <<>>

\* Whether a list holds no element twice.
NoDuplicates(s) == \A i, j \in 1..Len(s) : s[i] = s[j] => i = j

\* Whether list b holds the elements of list a, each as often as a does.
IsPermutation(a, b) ==
    /\ Len(a) = Len(b)
    /\ \A x \in Range(a) \cup Range(b) :
           Cardinality({i \in 1..Len(a) : a[i] = x}) =
           Cardinality({i \in 1..Len(b) : b[i] = x})

\* C17: in every state of the selection loop the playlist list is a
\* permutation of the list the loop was given, and the selection holds no
\* playlist twice and only playlists of the list.
C17_ListPermutedSelectionWithin ==
    /\ IsPermutation(Offered, playlist_data)
    /\ NoDuplicates(selected)
    /\ Range(selected) \subseteq Range(playlist_data)
    /\ NoDuplicates(selected_playlists)
    /\ Range(selected_playlists) \subseteq Range(playlist_data)

\* Two of three playlists selected in a list whose order was changed.
C17_SelectedInMovedList ==
    /\ pc = "tui"
    /\ Len(playlist_data) = 3
    /\ playlist_data # Offered
    /\ Len(selected) = 2
    /\ key = <<" ">>

\* C18: the selection loop never faults, for any playlist list, the empty one
\* included, and any keys: every key changes the state as specified or is
\* ignored, and the loop is still there to be confirmed.
C18_LoopNeverFaults ==
    /\ exit = Running
    /\ pc \in {"tui", "check_selection"}

\* Whether the attempts of the running get made so far all failed.
AllFailed == \A i \in 1..Len(g.log) : ~g.log[i].ok

\* C19: the retry budget belongs to each get call.  A list over a chain of N
\* pages whose requests each fail at most twice before succeeding returns the
\* full result after N successful requests and at most 3N attempts; failures
\* on one page take nothing from the attempts of a later page; every get call
\* ends after at most 3 attempts, and so the list call ends.
C19_BudgetPerGet ==
    /\ [](/\ Len(g.log) <= TRIES
          /\ g.st = "running" => Len(g.log) < TRIES /\ AllFailed
          /\ g.st = "exited" => Len(g.log) = TRIES /\ AllFailed
          /\ lst.gets <= Len(srv[Listed])
          /\ lst.tries <= TRIES * lst.gets
          /\ lst.st = "returned" =>
                 /\ lst.gets = Len(srv[Listed])
                 /\ lst.tries <= TRIES * Len(srv[Listed])
                 /\ lst.items = Concat(srv[Listed]))
    /\ [][(g'.st = "running" /\ g.st # "running") => g'.log = <<>>]_vars
    /\ <>(lst.st \in {"returned", "raised"} \/ g.st = "exited")

\* A chain of three pages listed with two failures before each page's success.
C19_ThreePagesNineAttempts ==
    /\ lst.st = "returned"
    /\ Len(srv[Listed]) = 3
    /\ lst.gets = 3
    /\ lst.tries = 9

\* Whether two selections differ, if at all, in the membership of playlist p
\* alone.
SameButFor(p, before, after) ==
    \A q \in Range(before) \cup Range(after) :
        q # p => (In(q, before) <=> In(q, after))

\* C20: each key changes only its own part of the state.  Cursor-up and
\* cursor-down leave the list order and the selection as they are; the toggle
\* leaves the list order and the cursor as they are and changes the membership
\* of the playlist under the cursor only; move-up on the first row and
\* move-down on the last row leave list, selection and cursor as they are, and
\* so does a key the loop does not know.
C20_KeysChangeTheirOwnPart ==
    /\ [][(Pressed("KEY_UP") \/ Pressed("KEY_DOWN")) =>
              playlist_data' = playlist_data /\ selected' = selected]_vars
    /\ [][Pressed(" ") =>
              /\ playlist_data' = playlist_data
              /\ current_row' = current_row
              /\ playlist_data # <<>> =>
                     LET p == playlist_data[current_row + 1]
                     IN  /\ In(p, selected') <=> ~In(p, selected)
                         /\ SameButFor(p, selected, selected')
              /\ playlist_data = <<>> => selected' = selected]_vars
    /\ [][((Pressed("+") /\ current_row = 0)
              \/ (Pressed("-") /\ current_row >= Len(playlist_data) - 1)
              \/ Pressed("q")) =>
              /\ playlist_data' = playlist_data
              /\ selected' = selected
              /\ current_row' = current_row]_vars

\* A toggle on the second row with another playlist selected before it.
C20_ToggledBesideAnother ==
    /\ pc = "tui"
    /\ key = <<" ">>
    /\ current_row = 1
    /\ Len(selected) = 2
    /\ In(playlist_data[2], selected)

=============================================================================
